---- MODULE Spec2Model ----
(***************************************************************************)
(* A model of the two batch jobs of US-Inaugural-Addresses:                *)
(*   scrape_inaugural_addresses.py  (listing parser, detail scraper,       *)
(*                                   filename deriver, parallel dispatch)  *)
(*   analyze_raw_words.py           (tokenizer, frequency distribution,    *)
(*                                   token classifier, report writer)      *)
(* A text is a sequence of characters; a character is a one-character      *)
(* string, or "U+XXXX" for a code point outside printable ASCII.           *)
(***************************************************************************)
EXTENDS Naturals, Sequences, FiniteSets

VARIABLES
    \* _slugify called on its own
    slug_pc, slug_text, slug_out,
    \* process_inaugural_word called on its own
    word_pc, word_freq, word_out,
    \* scrape_inaugural_urls: the listing page, the generator's position, the links yielded
    urls_pc, anchors, urls_tags, url_i, inaugural_urls,
    \* the scrape phase: the detail pages, the dispatcher, the tasks, the file system
    links, page, main_pc, task_pc, parsed, dirs, disk, opened, last_write,
    \* stage 2: the corpus, the script's position and its values, the files it writes
    corpus, an_pc, files, file_words, freq_dist, words, csv, png, runs, prev_csv

slugVars == <<slug_pc, slug_text, slug_out>>
wordVars == <<word_pc, word_freq, word_out>>
urlsVars == <<urls_pc, anchors, urls_tags, url_i, inaugural_urls>>
scrapeVars == <<links, page, main_pc, task_pc, parsed, dirs, disk, opened, last_write>>
analyzeVars == <<corpus, an_pc, files, file_words, freq_dist, words, csv, png, runs, prev_csv>>
vars == <<slugVars, wordVars, urlsVars, scrapeVars, analyzeVars>>

(***************************************************************************)
(* Characters and the string methods the two scripts use.                  *)
(***************************************************************************)
UpperCase == <<"A", "B", "C", "D", "E", "F", "G", "H", "I", "J", "K", "L", "M",
               "N", "O", "P", "Q", "R", "S", "T", "U", "V", "W", "X", "Y", "Z">>
LowerCase == <<"a", "b", "c", "d", "e", "f", "g", "h", "i", "j", "k", "l", "m",
               "n", "o", "p", "q", "r", "s", "t", "u", "v", "w", "x", "y", "z">>
Digits == {"0", "1", "2", "3", "4", "5", "6", "7", "8", "9"}

Range(s) == {s[i] : i \in DOMAIN s}

\* the ASCII characters: the letters, the digits, and the punctuation and
\* whitespace the texts of the model are made of
AsciiChars == Range(UpperCase) \cup Range(LowerCase) \cup Digits
                  \cup {"-", ".", ",", "'", " ", "\n", "\t"}

\* str.strip() and str.split() with no argument, and \s of a str pattern: whitespace
Whitespace == {" ", "\n", "\t", "U+00A0"}

\* \d of a str pattern: every Unicode decimal digit (category Nd), here the ASCII
\* digits and ARABIC-INDIC DIGIT THREE
DecimalDigits == Digits \cup {"U+0663"}

\* the class [a-zA-Z0-9]
AlphaNumeric == Range(UpperCase) \cup Range(LowerCase) \cup Digits

\* unicodedata.normalize("NFKD", c) of one character: E-acute decomposes into E
\* and COMBINING ACUTE ACCENT, NO-BREAK SPACE into a space, SUPERSCRIPT TWO into 2;
\* GREEK SMALL LETTER PI and the ASCII characters have no decomposition
NFKD(c) ==
    CASE c = "U+00C9" -> <<"E", "U+0301">>
      [] c = "U+00A0" -> <<" ">>
      [] c = "U+00B2" -> <<"2">>
      [] OTHER -> <<c>>

RECURSIVE normalize(_)
normalize(text) ==
    IF text = <<>> THEN <<>> ELSE NFKD(Head(text)) \o normalize(Tail(text))

\* .encode("ascii", "ignore").decode(): the characters ASCII cannot encode are dropped
IsAscii(c) == c \in AsciiChars
encode_ascii_ignore(text) == SelectSeq(text, IsAscii)

\* str.lower() of one character
lower_char(c) ==
    IF \E i \in DOMAIN UpperCase : UpperCase[i] = c
    THEN LowerCase[CHOOSE i \in DOMAIN UpperCase : UpperCase[i] = c]
    ELSE c

lower(text) == [i \in DOMAIN text |-> lower_char(text[i])]

\* str.strip(chars): leading and trailing characters of chars removed
RECURSIVE lstrip(_, _)
lstrip(text, chars) ==
    IF text # <<>> /\ Head(text) \in chars THEN lstrip(Tail(text), chars) ELSE text

RECURSIVE rstrip(_, _)
rstrip(text, chars) ==
    IF text # <<>> /\ text[Len(text)] \in chars
    THEN rstrip(SubSeq(text, 1, Len(text) - 1), chars)
    ELSE text

strip(text, chars) == rstrip(lstrip(text, chars), chars)

\* re.sub(r"[^a-zA-Z0-9]+", "-", slug): scanning from the left, every maximal run
\* of characters outside the class is replaced by one hyphen
RECURSIVE re_sub_runs(_, _)
re_sub_runs(text, inRun) ==
    IF text = <<>> THEN <<>>
    ELSE IF Head(text) \in AlphaNumeric
         THEN <<Head(text)>> \o re_sub_runs(Tail(text), FALSE)
         ELSE IF inRun THEN re_sub_runs(Tail(text), TRUE)
              ELSE <<"-">> \o re_sub_runs(Tail(text), TRUE)

\* the same with the quantifier forgotten, r"[^a-zA-Z0-9]": every character outside
\* the class becomes a hyphen of its own
RECURSIVE re_sub_each(_)
re_sub_each(text) ==
    IF text = <<>> THEN <<>>
    ELSE IF Head(text) \in AlphaNumeric
         THEN <<Head(text)>> \o re_sub_each(Tail(text))
         ELSE <<"-">> \o re_sub_each(Tail(text))

slugify_sub_each(text) ==
    lower(strip(re_sub_each(encode_ascii_ignore(normalize(text))), {"-"}))

\* _slugify(text)
_slugify(text) ==
    lower(strip(re_sub_runs(encode_ascii_ignore(normalize(text)), FALSE), {"-"}))


\* str.split(sep) with a one-character separator: the segments between the
\* separators, at least one segment, empty segments kept
RECURSIVE split(_, _)
split(text, sep) ==
    IF \A i \in DOMAIN text : text[i] # sep THEN <<text>>
    ELSE LET k == CHOOSE i \in DOMAIN text :
                      text[i] = sep /\ \A j \in 1..(i - 1) : text[j] # sep
         IN  <<SubSeq(text, 1, k - 1)>> \o split(SubSeq(text, k + 1, Len(text)), sep)

\* str.split() with no argument: the maximal runs of non-whitespace characters
RECURSIVE split_whitespace(_, _)
split_whitespace(text, word) ==
    IF text = <<>> THEN (IF word = <<>> THEN <<>> ELSE <<word>>)
    ELSE IF Head(text) \in Whitespace
         THEN (IF word = <<>> THEN <<>> ELSE <<word>>) \o split_whitespace(Tail(text), <<>>)
         ELSE split_whitespace(Tail(text), Append(word, Head(text)))

\* re.search(r"[...]", text) for a character class: scanning from the left, is
\* there a character of the class
RECURSIVE re_search(_, _)
re_search(text, class) ==
    IF text = <<>> THEN FALSE
    ELSE IF Head(text) \in class THEN TRUE ELSE re_search(Tail(text), class)

\* the same for a negated class [^...]
RECURSIVE re_search_not(_, _)
re_search_not(text, class) ==
    IF text = <<>> THEN FALSE
    ELSE IF Head(text) \notin class THEN TRUE ELSE re_search_not(Tail(text), class)

\* x in text, for a character x
contains(text, x) == \E i \in DOMAIN text : text[i] = x

(***************************************************************************)
(* analyze_raw_words.py: process_inaugural_word                            *)
(***************************************************************************)
\* the special-character test with the digits forgotten in the class, r"[^a-zA-Z\s]"
has_special_chars_no_digits(word) ==
    re_search_not(word, Range(UpperCase) \cup Range(LowerCase) \cup Whitespace)

\* has_special_chars = True if re.search(r"[^a-zA-Z0-9\s]", word) else False
has_special_chars(word) == re_search_not(word, AlphaNumeric \cup Whitespace)

\* has_nums = True if re.search(r"\d", word) else False
has_nums(word) == re_search(word, DecimalDigits)

\* has_contraction = "'" in word
has_contraction(word) == contains(word, "'")

\* process_inaugural_word(word_freq): the 5-tuple it returns, under METADATA_HEADERS
process_inaugural_word(wf) ==
    [word |-> wf[1], frequency |-> wf[2],
     has_special_chars |-> has_special_chars(wf[1]),
     has_nums |-> has_nums(wf[1]),
     has_contraction |-> has_contraction(wf[1])]

(***************************************************************************)
(* The input texts of _slugify and process_inaugural_word.                 *)
(***************************************************************************)
SeqsUpTo(S, n) == UNION {[1..k -> S] : k \in 0..n}

MaxTextLen == 4
SlugAlphabet == {"A", "b", "1", "-", " ", "U+00C9", "U+03C0", "U+00B2"}

MaxWordLen == 3
MaxFreq == 2
WordAlphabet == {"a", "Z", "7", "'", ".", " ", "U+0663", "U+00C9"}

(***************************************************************************)
(* The state of a part of the program that a specification does not run.   *)
(***************************************************************************)
SlugIdle == slug_pc = "idle" /\ slug_text = <<>> /\ slug_out = <<>>

WordIdle == word_pc = "idle" /\ word_freq = <<<<>>, 0>> /\ word_out = <<>>

UrlsIdle ==
    /\ urls_pc = "idle" /\ anchors = <<>> /\ urls_tags = <<>>
    /\ url_i = 0 /\ inaugural_urls = <<>>

ScrapeIdle ==
    /\ links = {} /\ page = <<>> /\ main_pc = "idle" /\ task_pc = <<>>
    /\ parsed = <<>> /\ dirs = FALSE /\ disk = <<>> /\ opened = <<>>
    /\ last_write = <<>>

AnalyzeIdle ==
    /\ corpus = <<>> /\ an_pc = "idle" /\ files = <<>> /\ file_words = <<>>
    /\ freq_dist = <<>> /\ words = <<>> /\ csv = <<>> /\ png = FALSE
    /\ runs = 0 /\ prev_csv = <<>>

(***************************************************************************)
(* _slugify on every text of SlugAlphabet up to MaxTextLen characters.     *)
(***************************************************************************)
SlugInit ==
    /\ slug_pc = "call" /\ slug_text \in SeqsUpTo(SlugAlphabet, MaxTextLen)
    /\ slug_out = <<>>
    /\ WordIdle /\ UrlsIdle /\ ScrapeIdle /\ AnalyzeIdle

CallSlugify ==
    /\ slug_pc = "call"
    /\ slug_out' = _slugify(slug_text)
    /\ slug_pc' = "returned"
    /\ UNCHANGED <<slug_text, wordVars, urlsVars, scrapeVars, analyzeVars>>

SlugNext == CallSlugify

SpecSlug == SlugInit /\ [][SlugNext]_vars

(***************************************************************************)
(* process_inaugural_word on every (word, frequency) pair of WordAlphabet   *)
(* up to MaxWordLen characters and MaxFreq occurrences.                    *)
(***************************************************************************)
WordInit ==
    /\ word_pc = "call"
    /\ word_freq \in SeqsUpTo(WordAlphabet, MaxWordLen) \X (1..MaxFreq)
    /\ word_out = <<>>
    /\ SlugIdle /\ UrlsIdle /\ ScrapeIdle /\ AnalyzeIdle

CallProcessWord ==
    /\ word_pc = "call"
    /\ word_out' = process_inaugural_word(word_freq)
    /\ word_pc' = "returned"
    /\ UNCHANGED <<word_freq, slugVars, urlsVars, scrapeVars, analyzeVars>>

WordNext == CallProcessWord

SpecWord == WordInit /\ [][WordNext]_vars


(***************************************************************************)
(* scrape_inaugural_addresses.py: scrape_inaugural_urls                    *)
(*                                                                         *)
(* The listing page is the sequence of its <a> elements in document order. *)
(* in_table: the element lies on the path div.field-body > table > tbody > *)
(* tr > td of INAUGURALS_URL_SELECTOR.  href: <<>> when the attribute is   *)
(* missing, else <<value>>.  A value is a sequence of characters in which  *)
(* "inaugural" stands for one occurrence of the marker substring.          *)
(***************************************************************************)
MaxAnchors == 2

Hrefs ==
    { <<>>, << <<>> >>, << <<" ">> >>, << <<"inaugural">> >>,
      << <<" ", "inaugural", "\n">> >>, << <<"/", "inaugural">> >> }

Anchors == [in_table : BOOLEAN, href : Hrefs]

\* a[href*=inaugural] under the selector's path
MatchesUrlSelector(a) ==
    a.in_table /\ a.href # <<>> /\ contains(a.href[1], "inaugural")

\* urls_soup.select(INAUGURALS_URL_SELECTOR): the matching elements, in document order
select_urls_tags(soup) == SelectSeq(soup, MatchesUrlSelector)

\* url_tag.get("href") or None: <<>> is None
get_href_or_None(a) == IF a.href = <<>> \/ a.href[1] = <<>> THEN <<>> ELSE a.href

\* the value yielded with the .strip() forgotten
yield_href_raw(url_href) == url_href[1]

\* yield url_href.strip()
yield_href(url_href) == strip(url_href[1], Whitespace)

UrlsInit ==
    /\ urls_pc = "request"
    /\ anchors \in SeqsUpTo(Anchors, MaxAnchors)
    /\ urls_tags = <<>> /\ url_i = 0 /\ inaugural_urls = <<>>
    /\ SlugIdle /\ WordIdle /\ ScrapeIdle /\ AnalyzeIdle

\* lines 75-81: the listing page is fetched and the selector applied
SelectUrlsTags ==
    /\ urls_pc = "request"
    /\ urls_tags' = select_urls_tags(anchors)
    /\ url_i' = 1
    /\ urls_pc' = "loop"
    /\ UNCHANGED <<anchors, inaugural_urls, slugVars, wordVars, scrapeVars, analyzeVars>>

\* line 77: requests.get raises (no connection): the generator raises
UrlsRequestFails ==
    /\ urls_pc = "request"
    /\ urls_pc' = "raised"
    /\ UNCHANGED <<anchors, urls_tags, url_i, inaugural_urls,
                   slugVars, wordVars, scrapeVars, analyzeVars>>

\* lines 82-85: one turn of the loop
NextUrlTag ==
    /\ urls_pc = "loop"
    /\ url_i <= Len(urls_tags)
    /\ LET url_href == get_href_or_None(urls_tags[url_i])
       IN  inaugural_urls' = IF url_href # <<>>
                             THEN Append(inaugural_urls, yield_href(url_href))
                             ELSE inaugural_urls
    /\ url_i' = url_i + 1
    /\ UNCHANGED <<urls_pc, anchors, urls_tags, slugVars, wordVars, scrapeVars, analyzeVars>>

\* the loop ends: the generator is exhausted
UrlsExhausted ==
    /\ urls_pc = "loop"
    /\ url_i > Len(urls_tags)
    /\ urls_pc' = "done"
    /\ UNCHANGED <<anchors, urls_tags, url_i, inaugural_urls,
                   slugVars, wordVars, scrapeVars, analyzeVars>>

UrlsNext == SelectUrlsTags \/ UrlsRequestFails \/ NextUrlTag \/ UrlsExhausted

SpecUrls == UrlsInit /\ [][UrlsNext]_vars


(***************************************************************************)
(* scrape_inaugural_addresses.py: scrape_inaugural and its parallel        *)
(* dispatch.                                                               *)
(*                                                                         *)
(* A detail page is what the three selectors find on it: for each of       *)
(* INAUGURAL_PRESIDENT_SELECTOR, INAUGURAL_YEAR_SELECTOR and               *)
(* INAUGURAL_SPEECH_SELECTOR, <<>> when select_one returns None, else      *)
(* <<text>>, the element's text.                                           *)
(***************************************************************************)
PresidentTags == { <<>>, << <<" ">> >>, << <<"A">> >>, << <<" ", "U+00C9", ".", " ">> >> }

DateTags ==
    { <<>>, << <<>> >>, << <<"J", " ", "1", ",", " ", "2", " ">> >>,
      << <<"J", ",">> >>, << <<"2">> >> }

SpeechTags ==
    { <<>>, << <<" ", "\n">> >>, << <<" ", "x", " ">> >>, << <<"y", " ", "z", "w">> >> }

Pages == [president : PresidentTags, date : DateTags, speech : SpeechTags]

\* the pages of the parallel scrape: one year; an author with no body
\* element, a short body or a long one, and a second author with a short
\* body or a blank one
RacePages ==
    {pg \in Pages :
        /\ pg.date = << <<"2">> >>
        /\ \/ /\ pg.president = << <<"A">> >>
              /\ pg.speech \in { <<>>, << <<" ", "x", " ">> >>, << <<"y", " ", "z", "w">> >> }
           \/ /\ pg.president = << <<" ", "U+00C9", ".", " ">> >>
              /\ pg.speech \in { << <<" ", "\n">> >>, << <<" ", "x", " ">> >> }}

NumLinks == 3
\* n_jobs = PARALLEL_NUM_JOBS = -1: one worker per processing unit
NumWorkers == 2

\* lines 105-106: year = year_tag.text.strip();
\* year = year.split(",")[-1].strip() if year else None.  <<>> is None.
parse_year(text) ==
    LET year == strip(text, Whitespace)
    IN  IF year # <<>>
        THEN LET segments == split(year, ",")
             IN  << strip(segments[Len(segments)], Whitespace) >>
        ELSE <<>>

\* lines 100-110 on a page where the three selectors match
parse_inaugural(pg) ==
    [president_name |-> strip(pg.president[1], Whitespace),
     year |-> parse_year(pg.date[1]),
     speech |-> strip(pg.speech[1], Whitespace)]

\* lines 101, 105, 110: .text of None raises AttributeError
SelectorMissing(pg) == pg.president = <<>> \/ pg.date = <<>> \/ pg.speech = <<>>

\* the test of line 113 with the speech forgotten
ShouldSave_no_speech(rec) ==
    /\ rec.president_name # <<>>
    /\ rec.year # <<>> /\ rec.year[1] # <<>>

\* line 113: if president_name and year and speech
ShouldSave(rec) ==
    /\ rec.president_name # <<>>
    /\ rec.year # <<>> /\ rec.year[1] # <<>>
    /\ rec.speech # <<>>

\* lines 114-116: the file's path under DATASET_INAUGURAL_ADDRESSES_PATH
inagural_file_path(rec) ==
    _slugify(rec.year[1] \o <<"-">> \o rec.president_name) \o <<".txt">>

\* open(path, "w"): the file is created or truncated
open_w(fs, path) == [q \in DOMAIN fs \cup {path} |-> IF q = path THEN <<>> ELSE fs[q]]

\* a write that appends to the file (O_APPEND) instead of writing at the
\* descriptor's own offset
write_append(content, data) == content \o data

\* one write(2) of data at offset 0 of a file holding content: the bytes under
\* data are overwritten, the rest stay
write_at_0(content, data) ==
    data \o (IF Len(content) > Len(data)
             THEN SubSeq(content, Len(data) + 1, Len(content))
             ELSE <<>>)

Running(t) == task_pc[t] \in {"start", "fetched", "parsed", "opened"}
Raised(t) == task_pc[t] \in {"raised_get", "raised_parse"}

\* an abort that leaves the workers alive (kill_workers = False)
after_abort_no_kill(pc) == IF pc = "pending" THEN "cancelled" ELSE pc

\* what Parallel's abort does to a task: one not yet dispatched never is, one
\* that is running dies with its worker process
after_abort(pc) ==
    IF pc = "pending" THEN "cancelled"
    ELSE IF pc \in {"start", "fetched", "parsed", "opened"} THEN "killed"
    ELSE pc

ScrapeStart(n, pages, dirstates) ==
    /\ links = 1..n
    /\ page \in [1..n -> pages]
    /\ main_pc = "dispatching"
    /\ task_pc = [t \in 1..n |-> "pending"]
    /\ parsed = [t \in 1..n |-> <<>>]
    /\ dirs \in dirstates
    /\ disk = <<>> /\ opened = <<>> /\ last_write = <<>>
    /\ SlugIdle /\ WordIdle /\ UrlsIdle /\ AnalyzeIdle

\* one link, any page
ScrapeOneInit == ScrapeStart(1, Pages, BOOLEAN)

\* NumLinks links, the pages of RacePages, the directory not yet made
ScrapeInit == ScrapeStart(NumLinks, RacePages, {FALSE})

ScrapeOthers == <<slugVars, wordVars, urlsVars, analyzeVars>>

\* lines 134-136: Parallel hands the next link, in order, to a free worker
Dispatch(t) ==
    /\ main_pc = "dispatching"
    /\ task_pc[t] = "pending"
    /\ \A u \in links : u < t => task_pc[u] # "pending"
    /\ Cardinality({u \in links : Running(u)}) < NumWorkers
    /\ task_pc' = [task_pc EXCEPT ![t] = "start"]
    /\ UNCHANGED <<links, page, main_pc, parsed, dirs, disk, opened, last_write, ScrapeOthers>>

\* lines 94-97: the detail page is fetched
Fetch(t) ==
    /\ task_pc[t] = "start"
    /\ task_pc' = [task_pc EXCEPT ![t] = "fetched"]
    /\ UNCHANGED <<links, page, main_pc, parsed, dirs, disk, opened, last_write, ScrapeOthers>>

\* line 96: requests.get raises
FetchFails(t) ==
    /\ task_pc[t] = "start"
    /\ task_pc' = [task_pc EXCEPT ![t] = "raised_get"]
    /\ UNCHANGED <<links, page, main_pc, parsed, dirs, disk, opened, last_write, ScrapeOthers>>

\* lines 100-110: the three fields are read
Parse(t) ==
    /\ task_pc[t] = "fetched"
    /\ ~SelectorMissing(page[t])
    /\ parsed' = [parsed EXCEPT ![t] = <<parse_inaugural(page[t])>>]
    /\ task_pc' = [task_pc EXCEPT ![t] = "parsed"]
    /\ UNCHANGED <<links, page, main_pc, dirs, disk, opened, last_write, ScrapeOthers>>

\* lines 101, 105, 110: a selector matched nothing, .text raises
ParseFails(t) ==
    /\ task_pc[t] = "fetched"
    /\ SelectorMissing(page[t])
    /\ task_pc' = [task_pc EXCEPT ![t] = "raised_parse"]
    /\ UNCHANGED <<links, page, main_pc, parsed, dirs, disk, opened, last_write, ScrapeOthers>>

\* lines 113-120: the directory is made and the file opened for writing;
\* opened[t] is the path of the file task t holds open or has written
Open(t) ==
    /\ task_pc[t] = "parsed"
    /\ ShouldSave(parsed[t][1])
    /\ dirs' = TRUE
    /\ LET path == inagural_file_path(parsed[t][1])
       IN  /\ disk' = open_w(disk, path)
           /\ opened' = [u \in DOMAIN opened \cup {t} |-> IF u = t THEN path ELSE opened[u]]
    /\ task_pc' = [task_pc EXCEPT ![t] = "opened"]
    /\ UNCHANGED <<links, page, main_pc, parsed, last_write, ScrapeOthers>>

\* lines 113, 123: a field is empty, nothing is saved
Skip(t) ==
    /\ task_pc[t] = "parsed"
    /\ ~ShouldSave(parsed[t][1])
    /\ task_pc' = [task_pc EXCEPT ![t] = "done"]
    /\ UNCHANGED <<links, page, main_pc, parsed, dirs, disk, opened, last_write, ScrapeOthers>>

\* lines 121-123: the speech is written, in one write(2) at the descriptor's
\* offset 0, and the file closed
Write(t) ==
    /\ task_pc[t] = "opened"
    /\ LET path == opened[t]
       IN  /\ disk' = [disk EXCEPT ![path] = write_at_0(disk[path], parsed[t][1].speech)]
           /\ last_write' = [q \in DOMAIN last_write \cup {path} |->
                                 IF q = path THEN t ELSE last_write[q]]
    /\ task_pc' = [task_pc EXCEPT ![t] = "done"]
    /\ UNCHANGED <<links, page, main_pc, parsed, dirs, opened, ScrapeOthers>>

\* lines 134-136: Parallel meets a task's exception: it aborts the batch and
\* raises the exception in the script
Abort ==
    /\ main_pc = "dispatching"
    /\ \E t \in links : Raised(t)
    /\ task_pc' = [t \in links |-> after_abort(task_pc[t])]
    /\ main_pc' = "raised"
    /\ UNCHANGED <<links, page, parsed, dirs, disk, opened, last_write, ScrapeOthers>>

\* lines 134-137: every task has returned, Parallel returns
Return ==
    /\ main_pc = "dispatching"
    /\ \A t \in links : task_pc[t] = "done"
    /\ main_pc' = "returned"
    /\ UNCHANGED <<links, page, task_pc, parsed, dirs, disk, opened, last_write, ScrapeOthers>>

ScrapeNext ==
    \/ \E t \in links : Dispatch(t)
    \/ \E t \in links : Fetch(t)
    \/ \E t \in links : FetchFails(t)
    \/ \E t \in links : Parse(t)
    \/ \E t \in links : ParseFails(t)
    \/ \E t \in links : Open(t)
    \/ \E t \in links : Skip(t)
    \/ \E t \in links : Write(t)
    \/ Abort
    \/ Return

SpecScrapeOne == ScrapeOneInit /\ [][ScrapeNext]_vars

SpecScrape == ScrapeInit /\ [][ScrapeNext]_vars


(***************************************************************************)
(* analyze_raw_words.py: the stage 2 script.                               *)
(*                                                                         *)
(* corpus maps each *.txt file of DATASET_INAUGURAL_RAW_PATH to its text.  *)
(* csv and png are the two files under DATASET_INTERIM_PATH: <<>> and      *)
(* FALSE while they do not exist.                                          *)
(***************************************************************************)
NumFiles == 2
MaxRuns == 2

FileTexts ==
    { <<"A", " ", "a", "\n", " ", "a", " ">>,
      <<"a", "\t", "b">>,
      <<" ", "\n">>,
      <<"b", "'", "1", " ", "A", "\n">> }

\* iterating over the open file: the lines, each with its line end
RECURSIVE text_lines(_)
text_lines(text) ==
    IF text = <<>> THEN <<>>
    ELSE IF \E i \in DOMAIN text : text[i] = "\n"
         THEN LET k == CHOOSE i \in DOMAIN text :
                           text[i] = "\n" /\ \A j \in 1..(i - 1) : text[j] # "\n"
              IN  <<SubSeq(text, 1, k)>> \o text_lines(SubSeq(text, k + 1, Len(text)))
         ELSE <<text>>

\* lines 77-80: words = words + text_line.strip().split(), line after line
RECURSIVE collect_words(_, _)
collect_words(lines, found) ==
    IF lines = <<>> THEN found
    ELSE collect_words(Tail(lines),
                       found \o split_whitespace(strip(Head(lines), Whitespace), <<>>))

\* process_inaugural_file(inaugural_address_file), on the file's text
process_inaugural_file(text) == collect_words(text_lines(text), <<>>)

\* itertools.chain.from_iterable(file_words): the lists one after another
RECURSIVE chain_from_iterable(_)
chain_from_iterable(lists) ==
    IF lists = <<>> THEN <<>> ELSE Head(lists) \o chain_from_iterable(Tail(lists))

\* counting with the sample lower-cased first
count_sample_lower(fd, sample) ==
    LET key == lower(sample)
    IN  IF \E k \in DOMAIN fd : fd[k][1] = key
        THEN [k \in DOMAIN fd |-> IF fd[k][1] = key THEN <<key, fd[k][2] + 1>> ELSE fd[k]]
        ELSE Append(fd, <<key, 1>>)

\* FreqDist (a Counter) counting one sample: self[sample] += 1.  The mapping
\* is the sequence of its (key, count) items in insertion order.
count_sample(fd, sample) ==
    IF \E k \in DOMAIN fd : fd[k][1] = sample
    THEN [k \in DOMAIN fd |-> IF fd[k][1] = sample THEN <<sample, fd[k][2] + 1>> ELSE fd[k]]
    ELSE Append(fd, <<sample, 1>>)

\* FreqDist(samples)
RECURSIVE FreqDist(_, _)
FreqDist(samples, fd) ==
    IF samples = <<>> THEN fd
    ELSE FreqDist(Tail(samples), count_sample(fd, Head(samples)))

RemoveAt(seq, i) == SubSeq(seq, 1, i - 1) \o SubSeq(seq, i + 1, Len(seq))

\* the sort with ascending=True
RECURSIVE sort_values_ascending(_)
sort_values_ascending(rows) ==
    IF rows = <<>> THEN {<<>>}
    ELSE LET first == {i \in DOMAIN rows :
                          \A j \in DOMAIN rows : rows[i].frequency <= rows[j].frequency}
         IN  UNION {{<<rows[i]>> \o rest : rest \in sort_values_ascending(RemoveAt(rows, i))} :
                    i \in first}

\* metadata_df.sort_values(by="frequency", ascending=False), kind="quicksort":
\* the orders a sort that is not stable can give, rows of the largest
\* frequency first, equal frequencies in any order
RECURSIVE sort_values(_)
sort_values(rows) ==
    IF rows = <<>> THEN {<<>>}
    ELSE LET first == {i \in DOMAIN rows :
                          \A j \in DOMAIN rows : rows[i].frequency >= rows[j].frequency}
         IN  UNION {{<<rows[i]>> \o rest : rest \in sort_values(RemoveAt(rows, i))} :
                    i \in first}

\* Path.glob("*.txt") yields the files in the directory's order, which is arbitrary
Orders(S) ==
    {f \in [1..Cardinality(S) -> S] : \A i, j \in DOMAIN f : f[i] = f[j] => i = j}

AnalyzeInit ==
    /\ corpus \in [1..NumFiles -> FileTexts]
    /\ an_pc = "glob"
    /\ files = <<>> /\ file_words = <<>> /\ freq_dist = <<>> /\ words = <<>>
    /\ csv = <<>> /\ png = FALSE
    /\ runs = 1 /\ prev_csv = <<>>
    /\ SlugIdle /\ WordIdle /\ UrlsIdle /\ ScrapeIdle

AnalyzeOthers == <<slugVars, wordVars, urlsVars, scrapeVars>>

\* line 93: the files of the corpus directory
Glob ==
    /\ an_pc = "glob"
    /\ files' \in Orders(DOMAIN corpus)
    /\ file_words' = [i \in 1..Cardinality(DOMAIN corpus) |-> <<>>]
    /\ an_pc' = "files"
    /\ UNCHANGED <<corpus, freq_dist, words, csv, png, runs, prev_csv, AnalyzeOthers>>

\* a task that opens its file for writing, "w+", before it reads it
ProcessFileTruncating(i) ==
    /\ an_pc = "files"
    /\ file_words[i] = <<>>
    /\ corpus' = [corpus EXCEPT ![files[i]] = <<>>]
    /\ file_words' = [file_words EXCEPT ![i] = <<process_inaugural_file(<<>>)>>]
    /\ UNCHANGED <<an_pc, files, freq_dist, words, csv, png, runs, prev_csv, AnalyzeOthers>>

\* lines 94-96: one task of the first Parallel call, process_inaugural_file on
\* the i-th file; the tasks run in any order
ProcessFile(i) ==
    /\ an_pc = "files"
    /\ file_words[i] = <<>>
    /\ file_words' = [file_words EXCEPT ![i] = <<process_inaugural_file(corpus[files[i]])>>]
    /\ UNCHANGED <<corpus, an_pc, files, freq_dist, words, csv, png, runs, prev_csv,
                   AnalyzeOthers>>

\* lines 94-101: every task has returned; the lists, in the order of the
\* files, are chained and counted
BuildFreqDist ==
    /\ an_pc = "files"
    /\ \A i \in DOMAIN file_words : file_words[i] # <<>>
    /\ freq_dist' = FreqDist(chain_from_iterable([i \in DOMAIN file_words |-> file_words[i][1]]),
                             <<>>)
    /\ an_pc' = "wordcloud"
    /\ UNCHANGED <<corpus, files, file_words, words, csv, png, runs, prev_csv, AnalyzeOthers>>

\* line 102: generate_wordcloud saves the image
GenerateWordcloud ==
    /\ an_pc = "wordcloud"
    /\ freq_dist # <<>>
    /\ png' = TRUE
    /\ words' = [k \in DOMAIN freq_dist |-> <<>>]
    /\ an_pc' = "words"
    /\ UNCHANGED <<corpus, files, file_words, freq_dist, csv, runs, prev_csv, AnalyzeOthers>>

\* line 46: generate_from_frequencies of no word raises ValueError
WordcloudFails ==
    /\ an_pc = "wordcloud"
    /\ freq_dist = <<>>
    /\ an_pc' = "raised"
    /\ UNCHANGED <<corpus, files, file_words, freq_dist, words, csv, png, runs, prev_csv,
                   AnalyzeOthers>>

\* lines 107-109: one task of the second Parallel call, process_inaugural_word
\* on the k-th item of freq_dist.items()
ProcessWord(k) ==
    /\ an_pc = "words"
    /\ words[k] = <<>>
    /\ words' = [words EXCEPT ![k] = <<process_inaugural_word(freq_dist[k])>>]
    /\ UNCHANGED <<corpus, an_pc, files, file_words, freq_dist, csv, png, runs, prev_csv,
                   AnalyzeOthers>>

\* lines 110-114: the rows are sorted and the table saved
WriteMetadata ==
    /\ an_pc = "words"
    /\ \A k \in DOMAIN words : words[k] # <<>>
    /\ \E sorted \in sort_values([k \in DOMAIN words |-> words[k][1]]) : csv' = <<sorted>>
    /\ an_pc' = "done"
    /\ UNCHANGED <<corpus, files, file_words, freq_dist, words, png, runs, prev_csv,
                   AnalyzeOthers>>

\* the script is run again on the directory as it is; prev_csv keeps the table
\* the run before left
Rerun ==
    /\ an_pc \in {"done", "raised"}
    /\ runs < MaxRuns
    /\ runs' = runs + 1
    /\ prev_csv' = csv
    /\ an_pc' = "glob"
    /\ files' = <<>> /\ file_words' = <<>> /\ freq_dist' = <<>> /\ words' = <<>>
    /\ UNCHANGED <<corpus, csv, png, AnalyzeOthers>>

AnalyzeNext ==
    \/ Glob
    \/ \E i \in DOMAIN file_words : ProcessFile(i)
    \/ BuildFreqDist
    \/ GenerateWordcloud
    \/ WordcloudFails
    \/ \E k \in DOMAIN words : ProcessWord(k)
    \/ WriteMetadata
    \/ Rerun

SpecAnalyze == AnalyzeInit /\ [][AnalyzeNext]_vars


(***************************************************************************)
(* The claims.                                                             *)
(***************************************************************************)
Finished(t) == task_pc[t] \in {"done", "raised_get", "raised_parse"}

C2_MissingSelectorDropped ==
    \A t \in links :
        SelectorMissing(page[t]) /\ task_pc[t] \notin {"pending", "start", "raised_get"} =>
            task_pc[t] \in {"fetched", "done"} /\ t \notin DOMAIN opened

\* the text after the last comma of a date text (the whole text without one)
LastSegment(d) ==
    LET commas == {i \in DOMAIN d : d[i] = ","}
        k == IF commas = {} THEN 0 ELSE CHOOSE i \in commas : \A j \in commas : j <= i
    IN  SubSeq(d, k + 1, Len(d))

\* C3: a task that has returned from a page with the three elements has
\* written a file iff the trimmed author, the trimmed last comma segment of
\* the date and the trimmed body are all non-empty; then the directory
\* holds exactly the file slugify(year-author).txt and its content is the
\* trimmed body; otherwise it holds no file.
C3_WritesIffAllFields ==
    \A t \in links :
        task_pc[t] = "done" /\ ~SelectorMissing(page[t]) =>
            LET author == strip(page[t].president[1], Whitespace)
                year == strip(LastSegment(page[t].date[1]), Whitespace)
                body == strip(page[t].speech[1], Whitespace)
                path == _slugify(year \o <<"-">> \o author) \o <<".txt">>
            IN  IF author # <<>> /\ year # <<>> /\ body # <<>>
                THEN DOMAIN disk = {path} /\ disk[path] = body
                ELSE DOMAIN disk = {}

\* C3's case: the page's date is "J 1, 2 ", its author needs slugifying, and
\* the file was written, trimmed, under the year after the comma.
C3_Witness ==
    \E t \in links :
        /\ task_pc[t] = "done"
        /\ page[t].date = << <<"J", " ", "1", ",", " ", "2", " ">> >>
        /\ page[t].president = << <<" ", "U+00C9", ".", " ">> >>
        /\ page[t].speech = << <<" ", "x", " ">> >>
        /\ DOMAIN disk = {<<"2", "-", "e", ".txt">>}
        /\ disk[<<"2", "-", "e", ".txt">>] = <<"x">>

SlugChars == Range(LowerCase) \cup Digits \cup {"-"}

\* C4: the slug holds only characters of [a-z0-9-], does not begin or end
\* with a hyphen, and has no two hyphens in a row.
C4_SlugShape ==
    slug_pc = "returned" =>
        /\ \A i \in DOMAIN slug_out : slug_out[i] \in SlugChars
        /\ slug_out # <<>> => slug_out[1] # "-" /\ slug_out[Len(slug_out)] # "-"
        /\ \A i \in 1..(Len(slug_out) - 1) : ~(slug_out[i] = "-" /\ slug_out[i + 1] = "-")

\* C4's case: an upper-case letter, then a run of two characters outside
\* the class, then a letter: one hyphen stands for the run.
C4_Witness ==
    /\ slug_pc = "returned"
    /\ slug_text = <<"A", " ", "-", "b">>
    /\ slug_out = <<"a", "-", "b">>

\* the tokens of a corpus file, and the places (file, index) of every token
TokensOf(f) == process_inaugural_file(corpus[f])
Places == UNION {{<<f, i>> : i \in DOMAIN TokensOf(f)} : f \in DOMAIN corpus}
Occurrences(w) == Cardinality({pl \in Places : TokensOf(pl[1])[pl[2]] = w})

RECURSIVE SumCounts(_)
SumCounts(fd) == IF fd = <<>> THEN 0 ELSE Head(fd)[2] + SumCounts(Tail(fd))

FreqBuilt == an_pc \in {"wordcloud", "words", "done", "raised"}

\* C5: the frequency table's keys are exactly the distinct tokens of the
\* corpus files, as written; no key is listed twice; each count is the
\* number of places the token stands at; the counts sum to the number of
\* tokens; whatever the order of the files.
C5_ExactTally ==
    FreqBuilt =>
        /\ {freq_dist[k][1] : k \in DOMAIN freq_dist} =
               {TokensOf(pl[1])[pl[2]] : pl \in Places}
        /\ \A j, k \in DOMAIN freq_dist : freq_dist[j][1] = freq_dist[k][1] => j = k
        /\ \A k \in DOMAIN freq_dist : freq_dist[k][2] = Occurrences(freq_dist[k][1])
        /\ SumCounts(freq_dist) = Cardinality(Places)

\* C5's case: the files were listed in the order 2, 1; "A" and "a" are both
\* keys, and "a" is counted across the two files.
C5_Witness ==
    /\ FreqBuilt
    /\ files = <<2, 1>>
    /\ \E j, k \in DOMAIN freq_dist :
          /\ freq_dist[j] = << <<"A">>, 1 >>
          /\ freq_dist[k] = << <<"a">>, 3 >>

\* C6: the table written has one row for each key of the frequency table
\* and no other row, each with the key's count, in non-increasing order of
\* frequency.
C6_OneRowPerToken ==
    an_pc = "done" =>
        LET rows == csv[1]
        IN  /\ Len(rows) = Len(freq_dist)
            /\ \A k \in DOMAIN freq_dist :
                  \E i \in DOMAIN rows :
                      /\ rows[i].word = freq_dist[k][1]
                      /\ rows[i].frequency = freq_dist[k][2]
                      /\ \A j \in DOMAIN rows : rows[j].word = rows[i].word => j = i
            /\ \A i, j \in DOMAIN rows : i < j => rows[i].frequency >= rows[j].frequency

\* C6's case: a table of at least three rows, two of them of equal
\* frequency, the first more frequent than the last, which the frequency
\* table did not list in that order.
C6_Witness ==
    /\ an_pc = "done"
    /\ Len(csv[1]) >= 3
    /\ csv[1][1].frequency > csv[1][Len(csv[1])].frequency
    /\ \E i \in 1..(Len(csv[1]) - 1) : csv[1][i].frequency = csv[1][i + 1].frequency
    /\ freq_dist[1][2] < csv[1][1].frequency

\* C7: the word and the frequency are returned as given; has_special_chars
\* iff some character is neither of [A-Za-z0-9] nor whitespace; has_nums
\* iff some character is a decimal digit; has_contraction iff some
\* character is the apostrophe.
C7_Flags ==
    word_pc = "returned" =>
        LET w == word_freq[1]
        IN  /\ word_out.word = w
            /\ word_out.frequency = word_freq[2]
            /\ word_out.has_special_chars <=>
                   \E i \in DOMAIN w : w[i] \notin AlphaNumeric /\ w[i] \notin Whitespace
            /\ word_out.has_nums <=> \E i \in DOMAIN w : w[i] \in DecimalDigits
            /\ word_out.has_contraction <=> \E i \in DOMAIN w : w[i] = "'"

\* C7's case: a word of a space and two digits has has_nums alone.
C7_Witness ==
    /\ word_pc = "returned"
    /\ word_freq = << <<"7", " ", "7">>, 2 >>
    /\ word_out.has_nums /\ ~word_out.has_special_chars /\ ~word_out.has_contraction

\* C8: no step of stage 2 changes a corpus file, and a second run that
\* wrote its table wrote the rows the run before wrote, in some order.
C8_RerunSameRows ==
    /\ [](an_pc = "done" /\ runs > 1 =>
             prev_csv # <<>> /\ Range(csv[1]) = Range(prev_csv[1]))
    /\ [][corpus' = corpus]_vars

\* C8's case: the second run listed the files in another order and wrote
\* the same rows in another order.
C8_Witness ==
    /\ an_pc = "done" /\ runs = 2
    /\ prev_csv # <<>> /\ csv # prev_csv
    /\ Len(csv[1]) >= 3

WritersOf(path) == {t \in DOMAIN opened : opened[t] = path}

\* C9, as stated: when two tasks that saved to the same path have both
\* returned, the file's content is the body of the task that wrote last.
C9_LastWriterWins ==
    \A t1, t2 \in links :
        /\ t1 # t2 /\ task_pc[t1] = "done" /\ task_pc[t2] = "done"
        /\ t1 \in DOMAIN opened /\ t2 \in DOMAIN opened
        /\ opened[t1] = opened[t2]
        => disk[opened[t1]] = parsed[last_write[opened[t1]]][1].speech

\* C9, amended: the files on disk are those the tasks opened, one per path.
\* When every task that opened a path has returned, the file begins with
\* the whole body of the task that wrote last; what follows it, if
\* anything, is left from the longer body of another task that wrote while
\* the last writer had the file open: each such character stands where it
\* stands in that other body.
C9_LastWriterPrefix ==
    /\ DOMAIN disk = {opened[t] : t \in DOMAIN opened}
    /\ \A path \in DOMAIN disk :
          (\A t \in WritersOf(path) : task_pc[t] = "done") =>
              LET last == last_write[path]
                  body == parsed[last][1].speech
              IN  /\ last \in WritersOf(path)
                  /\ Len(disk[path]) >= Len(body)
                  /\ SubSeq(disk[path], 1, Len(body)) = body
                  /\ \A i \in (Len(body) + 1)..Len(disk[path]) :
                        \E t \in WritersOf(path) \ {last} :
                            /\ i <= Len(parsed[t][1].speech)
                            /\ disk[path][i] = parsed[t][1].speech[i]

\* C9's case: two tasks saved to one path and have returned; the one with
\* the shorter body wrote last, and the file holds its body and then the
\* rest of the other's.
C9_Witness ==
    \E t1, t2 \in links :
        /\ t1 # t2 /\ task_pc[t1] = "done" /\ task_pc[t2] = "done"
        /\ t1 \in DOMAIN opened /\ t2 \in DOMAIN opened
        /\ opened[t1] = opened[t2]
        /\ last_write[opened[t1]] = t1
        /\ disk[opened[t1]] = <<"x", " ", "z", "w">>

\* C10: every link yielded is non-empty and has no whitespace at either
\* end; when the generator is exhausted the links are the trimmed hrefs of
\* the anchors under the selector's path whose href holds the marker, one
\* per anchor, in document order, duplicates kept.
C10_LinksTrimmedInOrder ==
    /\ \A i \in DOMAIN inaugural_urls :
          /\ inaugural_urls[i] # <<>>
          /\ inaugural_urls[i][1] \notin Whitespace
          /\ inaugural_urls[i][Len(inaugural_urls[i])] \notin Whitespace
    /\ urls_pc = "done" =>
          LET chosen == {i \in DOMAIN anchors :
                            /\ anchors[i].in_table
                            /\ anchors[i].href # <<>>
                            /\ \E j \in DOMAIN anchors[i].href[1] :
                                  anchors[i].href[1][j] = "inaugural"}
          IN  /\ Len(inaugural_urls) = Cardinality(chosen)
              /\ \A i \in chosen :
                    inaugural_urls[Cardinality({j \in chosen : j <= i})] =
                        strip(anchors[i].href[1], Whitespace)

\* C10's case: two anchors, one with whitespace around its href, yield the
\* same link twice.
C10_Witness ==
    /\ urls_pc = "done"
    /\ Len(anchors) = 2
    /\ anchors[1].href = << <<" ", "inaugural", "\n">> >>
    /\ anchors[2].href = << <<"inaugural">> >>
    /\ inaugural_urls = << <<"inaugural">>, <<"inaugural">> >>

====
